---- MODULE Spec2Model ----
(***************************************************************************)
(* The User resource of src/main.py: the five request handlers             *)
(* (get_users, get_user, create_user, delete_user, update_user) over the   *)
(* users table.  Every store statement a handler issues is one step, so    *)
(* that requests of different sessions interleave statement by statement.  *)
(* The store is PostgreSQL at READ COMMITTED: a statement sees the rows    *)
(* committed so far, a session's write stays private until its commit, and *)
(* an UPDATE/DELETE of a row another session has written waits for it.     *)
(* Request bodies pass the pydantic models of src/schemas.py before a      *)
(* handler runs, and get_db gives every request a Session of its own.      *)
(***************************************************************************)
EXTENDS Integers, Sequences, FiniteSets, TLC

(* ---------------------------------------------------------------- bounds *)
\* values the users_id_seq sequence may hand out
MaxId == 3
\* largest limit / skip query parameter tried
MaxLimit == 2
MaxSkip == 2

\* request sessions; the sequential specification serves all requests in
\* session 1
Procs == {1, 2}
SeqProcs == {1}

\* Strings are tuples of one-character strings.  None is Python's None.
None == <<"None">>
NoId == 0
\* SQL NULL in the created_at column
Null == 0

Usernames == { <<"a", "b">>, <<"B">>, <<"x">> }
Emails == { <<"a", "@", "x">>, <<"b", "@", "x">>, <<"B", "@", "y">> }
\* the search query parameter: absent, empty, plain text, text with the
\* LIKE wildcards _ and %
Searches == { None, <<>>, <<"A">>, <<"b", "@">>, <<"_">> }

\* what the requests of the concurrent specification draw from
ConcIds == {1, 2}
ConcUsernames == { <<"a", "b">>, <<"B">> }
ConcEmails == { <<"a", "@", "x">>, <<"b", "@", "x">> }

ListSearches == { None, <<"b">> }

\* request bodies as they arrive, before validation: a username that is
\* empty or missing (None), an email without "@" or missing
Malformed == <<"a", "x">>
RawUsernames == { <<"a", "b">>, <<>>, None }
RawEmails == { <<"a", "@", "x">>, <<"b", "@", "x">>, Malformed, None }

(* --------------------------------------------------------------- strings *)
Lower(c) ==
    CASE c = "A" -> "a"
      [] c = "B" -> "b"
      [] c = "X" -> "x"
      [] c = "Y" -> "y"
      [] OTHER -> c

\* s LIKE p, both already case-folded: % is any run of characters,
\* _ is any one character
RECURSIVE Like(_, _)
Like(s, p) ==
    IF p = <<>> THEN s = <<>>
    ELSE IF Head(p) = "%"
         THEN Like(s, Tail(p)) \/ (s # <<>> /\ Like(Tail(s), p))
         ELSE /\ s # <<>>
              /\ (Head(p) = "_" \/ Head(p) = Head(s))
              /\ Like(Tail(s), Tail(p))

Fold(s) == [i \in 1..Len(s) |-> Lower(s[i])]

\* s ILIKE p
ILike(s, p) == Like(Fold(s), Fold(p))

\* f"%{search}%"
SearchParam(search) == <<"%">> \o search \o <<"%">>

\* Python truthiness of Optional[str]: None and "" are false
Truthy(search) == search # None /\ search # <<>>

\* the WHERE clause get_users adds to both statements
ILikeWhere(row, search) ==
    \/ ILike(row.username, SearchParam(search))
    \/ ILike(row.email, SearchParam(search))

SelectWhere(row, search) == Truthy(search) => ILikeWhere(row, search)

\* the count statement without the "if search" branch
CountWhereUnfiltered(row, search) == TRUE

CountWhere(row, search) == Truthy(search) => ILikeWhere(row, search)

(* ------------------------------------------------------------------ rows *)
Ids(rows) == {r.id : r \in rows}

RowsById(rows, id) == {r \in rows : r.id = id}

\* ORDER BY id
RECURSIVE OrderById(_)
OrderById(rows) ==
    IF rows = {} THEN <<>>
    ELSE LET m == CHOOSE r \in rows : \A o \in rows : r.id <= o.id
         IN <<m>> \o OrderById(rows \ {m})

Min(a, b) == IF a <= b THEN a ELSE b

\* LIMIT :limit OFFSET :skip
LimitOffset(seq, limit, skip) == SubSeq(seq, skip + 1, Min(Len(seq), skip + limit))

\* str(row[3]) if row[3] else None
StrCreatedAt(t) == IF t # Null THEN <<"str", t>> ELSE None

\* the dict get_users and get_user build from a row
UserDict(row) ==
    [id |-> row.id, username |-> row.username, email |-> row.email,
     created_at |-> StrCreatedAt(row.created_at)]

\* the dict create_user and update_user build from a RETURNING row
ReturningDict(row) ==
    [id |-> row.id, username |-> row.username, email |-> row.email,
     created_at |-> row.created_at]

(* ------------------------------------------------------------ validation *)
\* EmailStr: one "@" with text on both sides.  The addresses of the model
\* stand for addresses in the form EmailStr hands to the handler.
EmailStr(e) ==
    LET at == {i \in 1..Len(e) : e[i] = "@"}
    IN /\ e # None
       /\ Cardinality(at) = 1
       /\ \A i \in at : 1 < i /\ i < Len(e)

\* UserCreate: username: str and email: EmailStr, both required; the fields
\* RequestValidationError lists
UserCreate(username, email) ==
    {f \in {"username"} : username = None} \cup {f \in {"email"} : ~EmailStr(email)}

\* UserUpdate: username: Optional[str], email: Optional[EmailStr]
UserUpdate(username, email) ==
    {f \in {"email"} : email # None /\ ~EmailStr(email)}

(* ----------------------------------------------------------------- state *)
VARIABLES
    users,      \* the committed rows of the users table
    seq,        \* next value of users_id_seq
    clock,      \* the store's now(), read by the created_at default
    req,        \* req[p]: the request session p is handling
    pc,         \* pc[p]: the statement session p is at
    txn,        \* txn[p]: the uncommitted write of p's transaction
    result,     \* result[p]: rows of p's last statement (RETURNING / SELECT)
    resp,       \* resp[p]: the response of p's request
    deleted,    \* ids whose DELETE request reported success
    db          \* db[p]: the Session object get_db yielded to p's request

vars == <<users, seq, clock, req, pc, txn, result, resp, deleted, db>>

\* no Session object
NoSession == 0

NoReq ==
    [op |-> "none", id |-> NoId, username |-> None, email |-> None,
     search |-> None, skip |-> 0, limit |-> 0]

NoTxn == [kind |-> "none", id |-> NoId, rows |-> {}]

NoResp == [status |-> 0, detail |-> "", body |-> <<>>]

Init ==
    /\ users = {}
    /\ seq = 1
    /\ clock = 1
    /\ req = [p \in Procs |-> NoReq]
    /\ pc = [p \in Procs |-> "idle"]
    /\ txn = [p \in Procs |-> NoTxn]
    /\ result = [p \in Procs |-> <<>>]
    /\ resp = [p \in Procs |-> NoResp]
    /\ deleted = {}
    /\ db = [p \in Procs |-> NoSession]


(* ------------------------------------------------------- the transaction *)
\* the table after a transaction's write is committed
ApplyTxn(rows, t) ==
    IF t.kind = "none" THEN rows
    ELSE {r \in rows : r.id # t.id} \cup t.rows

\* another session holds the row lock of this id until it commits
Locked(p, id) ==
    \E q \in Procs \ {p} : txn[q].kind \in {"update", "delete"} /\ txn[q].id = id

\* raise HTTPException(status_code, detail) / return body: the request ends
Respond(p, status, detail, body) ==
    /\ resp' = [resp EXCEPT ![p] = [status |-> status, detail |-> detail, body |-> body]]
    /\ pc' = [pc EXCEPT ![p] = "done"]

\* db = SessionLocal(): a new object, named by the first number that no
\* request in flight holds
SessionLocal(p) ==
    LET held == {db[q] : q \in Procs \ {p}}
    IN CHOOSE n \in 1..Cardinality(Procs) :
           n \notin held /\ \A m \in 1..(n - 1) : m \in held

\* the request arrives at an idle session: get_db opens its Session and the
\* handler runs its first statement
Arrive(p, r) ==
    /\ pc[p] = "idle"
    /\ req' = [req EXCEPT ![p] = r]
    /\ db' = [db EXCEPT ![p] = SessionLocal(p)]

\* the handler goes on to its next statement
Goto(p, next) ==
    /\ pc' = [pc EXCEPT ![p] = next]
    /\ UNCHANGED resp

\* get_db without try / finally: db.close() is skipped when the handler raised
FinishNoFinally(p) ==
    /\ pc[p] = "done"
    /\ pc' = [pc EXCEPT ![p] = "idle"]
    /\ req' = [req EXCEPT ![p] = NoReq]
    /\ txn' = [txn EXCEPT ![p] = NoTxn]
    /\ result' = [result EXCEPT ![p] = <<>>]
    /\ resp' = [resp EXCEPT ![p] = NoResp]
    /\ db' = [db EXCEPT ![p] = IF resp[p].status = 200 THEN NoSession ELSE db[p]]
    /\ UNCHANGED <<users, seq, clock, deleted>>

\* the response is sent and get_db's finally runs db.close(), which ends the
\* Session's transaction
Finish(p) ==
    /\ pc[p] = "done"
    /\ pc' = [pc EXCEPT ![p] = "idle"]
    /\ req' = [req EXCEPT ![p] = NoReq]
    /\ txn' = [txn EXCEPT ![p] = NoTxn]
    /\ result' = [result EXCEPT ![p] = <<>>]
    /\ resp' = [resp EXCEPT ![p] = NoResp]
    /\ db' = [db EXCEPT ![p] = NoSession]
    /\ UNCHANGED <<users, seq, clock, deleted>>

(* ------------------------------------------------------------ POST /users *)
\* the check with AND where the statement has OR
CreateExistingBoth(rows, username, email) ==
    {r \in rows : r.username = username /\ r.email = email}

\* SELECT id FROM users WHERE username = :username OR email = :email
CreateExisting(rows, username, email) ==
    {r \in rows : r.username = username \/ r.email = email}

\* the column defaults of the users table: id from users_id_seq,
\* created_at the time of the insert
IdDefault(nextval) == nextval

CreatedAtDefault(now) == now

\* a slip in the bind parameters: the email bound to :username
InsertRowEmailAsUsername(id, username, email, now) ==
    [id |-> IdDefault(id), username |-> email, email |-> email,
     created_at |-> CreatedAtDefault(now)]

\* INSERT INTO users (username, email) VALUES (:username, :email)
InsertRow(id, username, email, now) ==
    [id |-> IdDefault(id), username |-> username, email |-> email,
     created_at |-> CreatedAtDefault(now)]

\* creates in flight that have not drawn their id yet
PendingInserts == Cardinality({q \in Procs : pc[q] = "create_insert"})

\* POST /users bodies
CreateReqs(U, E) ==
    {[NoReq EXCEPT !.op = "create", !.username = u, !.email = e] : u \in U, e \in E}

CreateSelect(p, U, E, I) ==
    /\ pc[p] = "idle"
    /\ seq + PendingInserts \in I
    /\ \E r \in CreateReqs(U, E) :
         /\ Arrive(p, r)
         /\ IF UserCreate(r.username, r.email) # {}
            THEN Respond(p, 422, "validation error", UserCreate(r.username, r.email))
            ELSE IF CreateExisting(users, r.username, r.email) # {}
                 THEN Respond(p, 400, "already exists", <<>>)
                 ELSE Goto(p, "create_insert")
    /\ UNCHANGED <<users, seq, clock, txn, result, deleted>>

\* the INSERT executes; RETURNING delivers the new row, or (the case the
\* handler's "if not row" guards against) delivers none
CreateInsert(p, Returned) ==
    /\ pc[p] = "create_insert"
    /\ LET row == InsertRow(seq, req[p].username, req[p].email, clock)
       IN /\ txn' = [txn EXCEPT ![p] = [kind |-> "insert", id |-> row.id, rows |-> {row}]]
          /\ \E returned \in Returned :
               result' = [result EXCEPT ![p] = IF returned THEN <<row>> ELSE <<>>]
    /\ seq' = seq + 1
    /\ clock' = clock + 1
    /\ pc' = [pc EXCEPT ![p] = "create_commit"]
    /\ UNCHANGED <<users, req, db, resp, deleted>>

\* the commit under a unique constraint on username: it raises when a row
\* with the username was committed meanwhile, and the handler rolls back
CreateCommitUnique(p) ==
    /\ pc[p] = "create_commit"
    /\ txn' = [txn EXCEPT ![p] = NoTxn]
    /\ IF \E r \in users : r.username = req[p].username
       THEN /\ users' = users
            /\ Respond(p, 500, "store error", <<>>)
       ELSE /\ users' = ApplyTxn(users, txn[p])
            /\ Respond(p, 200, "", ReturningDict(result[p][1]))
    /\ UNCHANGED <<seq, clock, req, db, result, deleted>>

\* db.commit(), then row = result.fetchone()
CreateCommit(p) ==
    /\ pc[p] = "create_commit"
    /\ users' = ApplyTxn(users, txn[p])
    /\ txn' = [txn EXCEPT ![p] = NoTxn]
    /\ IF result[p] = <<>>
       THEN Respond(p, 500, "failed to create", <<>>)
       ELSE Respond(p, 200, "", ReturningDict(result[p][1]))
    /\ UNCHANGED <<seq, clock, req, db, result, deleted>>

(* ------------------------------------------------- DELETE /users/{user_id} *)
DeleteReqs(I) == {[NoReq EXCEPT !.op = "delete", !.id = id] : id \in I}

\* SELECT id FROM users WHERE id = :id
DeleteSelect(p, I) ==
    /\ pc[p] = "idle"
    /\ \E r \in DeleteReqs(I) :
         /\ Arrive(p, r)
         /\ IF RowsById(users, r.id) = {}
            THEN Respond(p, 404, "not found", <<>>)
            ELSE Goto(p, "delete_exec")
    /\ UNCHANGED <<users, seq, clock, txn, result, deleted>>

\* DELETE FROM users WHERE id = :id RETURNING id
DeleteExec(p) ==
    /\ pc[p] = "delete_exec"
    /\ ~Locked(p, req[p].id)
    /\ LET hit == RowsById(users, req[p].id)
       IN IF hit = {}
          THEN /\ result' = [result EXCEPT ![p] = <<>>]
               /\ UNCHANGED txn
          ELSE /\ result' = [result EXCEPT ![p] = <<req[p].id>>]
               /\ txn' = [txn EXCEPT ![p] = [kind |-> "delete", id |-> req[p].id, rows |-> {}]]
    /\ pc' = [pc EXCEPT ![p] = "delete_commit"]
    /\ UNCHANGED <<users, seq, clock, req, db, resp, deleted>>

\* the handler without its db.commit()
DeleteCommitMissing(p) ==
    /\ pc[p] = "delete_commit"
    /\ users' = users
    /\ txn' = [txn EXCEPT ![p] = NoTxn]
    /\ IF result[p] # <<>>
       THEN /\ Respond(p, 200, "deleted successfully", <<>>)
            /\ deleted' = deleted \cup {req[p].id}
       ELSE /\ Respond(p, 500, "failed to delete", <<>>)
            /\ UNCHANGED deleted
    /\ UNCHANGED <<seq, clock, req, db, result>>

\* the handler without the "if deleted_id" test
DeleteCommitAlwaysOk(p) ==
    /\ pc[p] = "delete_commit"
    /\ users' = ApplyTxn(users, txn[p])
    /\ txn' = [txn EXCEPT ![p] = NoTxn]
    /\ Respond(p, 200, "deleted successfully", <<>>)
    /\ deleted' = deleted \cup {req[p].id}
    /\ UNCHANGED <<seq, clock, req, db, result>>

\* db.commit(), then deleted_id = result.fetchone()
DeleteCommit(p) ==
    /\ pc[p] = "delete_commit"
    /\ users' = ApplyTxn(users, txn[p])
    /\ txn' = [txn EXCEPT ![p] = NoTxn]
    /\ IF result[p] # <<>>
       THEN /\ Respond(p, 200, "deleted successfully", <<>>)
            /\ deleted' = deleted \cup {req[p].id}
       ELSE /\ Respond(p, 500, "failed to delete", <<>>)
            /\ UNCHANGED deleted
    /\ UNCHANGED <<seq, clock, req, db, result>>


(* -------------------------------------------------- PATCH /users/{user_id} *)
\* update_data filled without the "is not None" tests
UpdateDataAlways(username, email) ==
    [k \in {"username", "email"} |-> IF k = "username" THEN username ELSE email]

\* update_data: the payload's fields that are not None, by column name
UpdateData(username, email) ==
    [k \in {c \in {"username", "email"} :
                \/ (c = "username" /\ username # None)
                \/ (c = "email" /\ email # None)}
        |-> IF k = "username" THEN username ELSE email]

\* the check without the email condition
UpdateConflictUsernameOnly(rows, id, data) ==
    {r \in rows :
        "username" \in DOMAIN data /\ r.username = data["username"] /\ r.id # id}

\* the check without "AND id != :id"
UpdateConflictSelf(rows, id, data) ==
    {r \in rows :
        \/ ("username" \in DOMAIN data /\ r.username = data["username"])
        \/ ("email" \in DOMAIN data /\ r.email = data["email"])}

\* SELECT id FROM users WHERE (username = :new_username AND id != :id)
\*                         OR (email = :new_email AND id != :id)
\* with one condition per key of update_data
UpdateConflict(rows, id, data) ==
    {r \in rows :
        \/ ("username" \in DOMAIN data /\ r.username = data["username"] /\ r.id # id)
        \/ ("email" \in DOMAIN data /\ r.email = data["email"] /\ r.id # id)}

\* a SET clause that writes both columns, the payload's None included
SetClauseReplace(row, data) ==
    [c \in DOMAIN row |->
        IF c \in DOMAIN data THEN data[c]
        ELSE IF c \in {"username", "email"} THEN None ELSE row[c]]

\* UPDATE users SET <key = :key for each key of update_data>
SetClause(row, data) ==
    [c \in DOMAIN row |-> IF c \in DOMAIN data THEN data[c] ELSE row[c]]

\* PATCH bodies: each field a value or None
UpdateReqs(I, U, E) ==
    {[NoReq EXCEPT !.op = "update", !.id = id, !.username = u, !.email = e] :
        id \in I, u \in U \cup {None}, e \in E \cup {None}}

\* the handler's own order, were the body validated inside it after the
\* existence check
UpdateSelectExistenceFirst(p, I, U, E) ==
    /\ pc[p] = "idle"
    /\ \E r \in UpdateReqs(I, U, E) :
         /\ Arrive(p, r)
         /\ IF RowsById(users, r.id) = {}
            THEN Respond(p, 404, "not found", <<>>)
            ELSE IF UserUpdate(r.username, r.email) # {}
                 THEN Respond(p, 422, "validation error", UserUpdate(r.username, r.email))
                 ELSE IF DOMAIN UpdateData(r.username, r.email) = {}
                      THEN Respond(p, 400, "no data provided", <<>>)
                      ELSE Goto(p, "update_check")
    /\ UNCHANGED <<users, seq, clock, txn, result, deleted>>

\* FastAPI validates the body against UserUpdate before it calls the handler;
\* then SELECT * FROM users WHERE id = :id, then update_data is collected
UpdateSelect(p, I, U, E) ==
    /\ pc[p] = "idle"
    /\ \E r \in UpdateReqs(I, U, E) :
         /\ Arrive(p, r)
         /\ IF UserUpdate(r.username, r.email) # {}
            THEN Respond(p, 422, "validation error", UserUpdate(r.username, r.email))
            ELSE IF RowsById(users, r.id) = {}
                 THEN Respond(p, 404, "not found", <<>>)
                 ELSE IF DOMAIN UpdateData(r.username, r.email) = {}
                      THEN Respond(p, 400, "no data provided", <<>>)
                      ELSE Goto(p, "update_check")
    /\ UNCHANGED <<users, seq, clock, txn, result, deleted>>

UpdateCheck(p) ==
    /\ pc[p] = "update_check"
    /\ IF UpdateConflict(users, req[p].id, UpdateData(req[p].username, req[p].email)) # {}
       THEN Respond(p, 400, "already taken", <<>>)
       ELSE Goto(p, "update_exec")
    /\ UNCHANGED <<users, seq, clock, req, db, txn, result, deleted>>

\* UPDATE users SET ... WHERE id = :id RETURNING id, username, email, created_at
UpdateExec(p) ==
    /\ pc[p] = "update_exec"
    /\ ~Locked(p, req[p].id)
    /\ LET hit == RowsById(users, req[p].id)
           data == UpdateData(req[p].username, req[p].email)
       IN IF hit = {}
          THEN /\ result' = [result EXCEPT ![p] = <<>>]
               /\ UNCHANGED txn
          ELSE LET new == SetClause(CHOOSE r \in hit : TRUE, data)
               IN /\ result' = [result EXCEPT ![p] = <<new>>]
                  /\ txn' = [txn EXCEPT ![p] =
                                [kind |-> "update", id |-> req[p].id, rows |-> {new}]]
    /\ pc' = [pc EXCEPT ![p] = "update_commit"]
    /\ UNCHANGED <<users, seq, clock, req, db, resp, deleted>>

\* the handler without "if not updated_row": indexing the missing row
\* raises, and "except Exception" answers 500 with the exception's text
UpdateCommitUnchecked(p) ==
    /\ pc[p] = "update_commit"
    /\ users' = ApplyTxn(users, txn[p])
    /\ txn' = [txn EXCEPT ![p] = NoTxn]
    /\ IF result[p] = <<>>
       THEN Respond(p, 500, "store error", <<>>)
       ELSE Respond(p, 200, "", ReturningDict(result[p][1]))
    /\ UNCHANGED <<seq, clock, req, db, result, deleted>>

\* db.commit(), then updated_row = result.fetchone()
UpdateCommit(p) ==
    /\ pc[p] = "update_commit"
    /\ users' = ApplyTxn(users, txn[p])
    /\ txn' = [txn EXCEPT ![p] = NoTxn]
    /\ IF result[p] = <<>>
       THEN Respond(p, 500, "failed to update", <<>>)
       ELSE Respond(p, 200, "", ReturningDict(result[p][1]))
    /\ UNCHANGED <<seq, clock, req, db, result, deleted>>

(* ---------------------------------------------------- GET /users/{user_id} *)
\* what get_user answers over the committed rows
GetUser(rows, id) ==
    LET hit == RowsById(rows, id)
    IN IF hit = {}
       THEN [status |-> 404, detail |-> "not found", body |-> <<>>]
       ELSE [status |-> 200, detail |-> "", body |-> UserDict(CHOOSE r \in hit : TRUE)]

GetReqs(I) == {[NoReq EXCEPT !.op = "get", !.id = id] : id \in I}

\* SELECT * FROM users WHERE id = :id
GetSelect(p, I) ==
    /\ pc[p] = "idle"
    /\ \E r \in GetReqs(I) :
         /\ Arrive(p, r)
         /\ LET a == GetUser(users, r.id)
            IN Respond(p, a.status, a.detail, a.body)
    /\ UNCHANGED <<users, seq, clock, txn, result, deleted>>

(* ---------------------------------------------------------------- GET /users *)
\* SELECT * FROM users [WHERE ...] ORDER BY id LIMIT :limit OFFSET :skip
SelectPage(rows, search, limit, skip) ==
    LimitOffset(OrderById({r \in rows : SelectWhere(r, search)}), limit, skip)

\* SELECT COUNT(*) FROM users [WHERE ...]
SelectCount(rows, search) == Cardinality({r \in rows : CountWhere(r, search)})

\* (skip + len(users)) < total
HasMore(skip, n, total) == (skip + n) < total

ListReqs(S, L, K) ==
    {[NoReq EXCEPT !.op = "list", !.search = s, !.limit = l, !.skip = k] :
        s \in S, l \in L, k \in K}

ListSelect(p, S, L, K) ==
    /\ pc[p] = "idle"
    /\ \E r \in ListReqs(S, L, K) :
         /\ Arrive(p, r)
         /\ result' = [result EXCEPT ![p] = SelectPage(users, r.search, r.limit, r.skip)]
    /\ Goto(p, "list_count")
    /\ UNCHANGED <<users, seq, clock, txn, deleted>>

ListCount(p) ==
    /\ pc[p] = "list_count"
    /\ LET total == SelectCount(users, req[p].search)
           page == [i \in 1..Len(result[p]) |-> UserDict(result[p][i])]
       IN Respond(p, 200, "",
                  [users |-> page, count |-> Len(page), total |-> total,
                   skip |-> req[p].skip, limit |-> req[p].limit,
                   has_more |-> HasMore(req[p].skip, Len(page), total)])
    /\ UNCHANGED <<users, seq, clock, req, db, txn, result, deleted>>

(* ------------------------------------------------------------ GET /health *)
\* what SELECT version() returns
PostgresVersion == "PostgreSQL"

\* the handler without its try / except
HealthCheckUncaught(p) ==
    /\ pc[p] = "idle"
    /\ Arrive(p, [NoReq EXCEPT !.op = "health"])
    /\ \E up \in BOOLEAN :
         /\ result' = [result EXCEPT ![p] = IF up THEN <<PostgresVersion>> ELSE <<>>]
         /\ IF up
            THEN Respond(p, 200, "",
                         [status |-> "healthy", database |-> "connected",
                          postgres_version |-> PostgresVersion])
            ELSE Respond(p, 500, "store error", <<>>)
    /\ UNCHANGED <<users, seq, clock, txn, deleted>>

\* db.execute(text("SELECT version()")) answers or raises; both paths return
\* a dict, which FastAPI sends with status 200
HealthCheck(p) ==
    /\ pc[p] = "idle"
    /\ Arrive(p, [NoReq EXCEPT !.op = "health"])
    /\ \E up \in BOOLEAN :
         /\ result' = [result EXCEPT ![p] = IF up THEN <<PostgresVersion>> ELSE <<>>]
         /\ IF up
            THEN Respond(p, 200, "",
                         [status |-> "healthy", database |-> "connected",
                          postgres_version |-> PostgresVersion])
            ELSE Respond(p, 200, "",
                         [status |-> "unhealthy", database |-> "disconnected",
                          error |-> "store error"])
    /\ UNCHANGED <<users, seq, clock, txn, deleted>>

(* ------------------------------------------------------- store exceptions *)
\* positions at which the handler is waiting on a store statement
AtStatement ==
    {"create_insert", "create_commit", "delete_exec", "delete_commit",
     "update_check", "update_exec", "update_commit", "list_count"}

\* the statement raises: "except Exception" rolls back (the three writing
\* handlers) and answers 500
StoreException(p) ==
    /\ pc[p] \in AtStatement
    /\ txn' = [txn EXCEPT ![p] = NoTxn]
    /\ Respond(p, 500, "store error", <<>>)
    /\ UNCHANGED <<users, seq, clock, req, db, result, deleted>>

\* the first statement of an arriving request raises
FirstException(p, R) ==
    /\ pc[p] = "idle"
    /\ \E r \in R : Arrive(p, r)
    /\ Respond(p, 500, "store error", <<>>)
    /\ UNCHANGED <<users, seq, clock, txn, result, deleted>>

(* ------------------------------------------------------- specifications *)
\* requests run to completion one after the other
Next ==
    \E p \in SeqProcs :
        \/ CreateSelect(p, Usernames, Emails, 1..MaxId)
        \/ CreateInsert(p, BOOLEAN)
        \/ CreateCommit(p)
        \/ DeleteSelect(p, 1..MaxId)
        \/ DeleteExec(p)
        \/ DeleteCommit(p)
        \/ UpdateSelect(p, 1..MaxId, Usernames, Emails)
        \/ UpdateCheck(p)
        \/ UpdateExec(p)
        \/ UpdateCommit(p)
        \/ GetSelect(p, 1..MaxId)
        \/ ListSelect(p, Searches, 0..MaxLimit, 0..MaxSkip)
        \/ ListCount(p)
        \/ HealthCheck(p)
        \/ StoreException(p)
        \/ FirstException(p, CreateReqs(Usernames, Emails) \cup DeleteReqs(1..MaxId)
                               \cup UpdateReqs(1..MaxId, Usernames, Emails)
                               \cup GetReqs(1..MaxId)
                               \cup ListReqs(Searches, 0..MaxLimit, 0..MaxSkip))
        \/ Finish(p)

Spec == Init /\ [][Next]_vars

\* the same requests with bodies as they arrive, valid or not
NextRaw ==
    \E p \in SeqProcs :
        \/ CreateSelect(p, RawUsernames, RawEmails, ConcIds)
        \/ CreateInsert(p, BOOLEAN)
        \/ CreateCommit(p)
        \/ DeleteSelect(p, ConcIds)
        \/ DeleteExec(p)
        \/ DeleteCommit(p)
        \/ UpdateSelect(p, ConcIds, RawUsernames, RawEmails)
        \/ UpdateCheck(p)
        \/ UpdateExec(p)
        \/ UpdateCommit(p)
        \/ GetSelect(p, ConcIds)
        \/ ListSelect(p, ListSearches, 0..MaxLimit, 0..MaxSkip)
        \/ ListCount(p)
        \/ HealthCheck(p)
        \/ StoreException(p)
        \/ FirstException(p, CreateReqs(RawUsernames \ {None}, ConcEmails)
                               \cup DeleteReqs(ConcIds)
                               \cup UpdateReqs(ConcIds, RawUsernames, ConcEmails)
                               \cup GetReqs(ConcIds)
                               \cup ListReqs(ListSearches, 0..MaxLimit, 0..MaxSkip))
        \/ Finish(p)

\* a handler runs in its worker thread until it returns or raises, and the
\* response is then sent: a request in flight takes its next step
SpecRaw == Init /\ [][NextRaw]_vars /\ WF_vars(NextRaw)

\* the writing requests of two sessions, interleaved statement by statement,
\* over a store that raises nothing
NextConc ==
    \E p \in Procs :
        \/ CreateSelect(p, ConcUsernames, ConcEmails, ConcIds)
        \/ CreateInsert(p, {TRUE})
        \/ CreateCommit(p)
        \/ DeleteSelect(p, ConcIds)
        \/ DeleteExec(p)
        \/ DeleteCommit(p)
        \/ UpdateSelect(p, ConcIds, ConcUsernames, ConcEmails)
        \/ UpdateCheck(p)
        \/ UpdateExec(p)
        \/ UpdateCommit(p)
        \/ Finish(p)

SpecConc == Init /\ [][NextConc]_vars

\* one session pages through the list while the other creates and deletes
Lister == 1
Writer == 2
NextList ==
    \/ ListSelect(Lister, ListSearches, 0..MaxLimit, 0..MaxSkip)
    \/ ListCount(Lister)
    \/ Finish(Lister)
    \/ CreateSelect(Writer, ConcUsernames, ConcEmails, ConcIds)
    \/ CreateInsert(Writer, {TRUE})
    \/ CreateCommit(Writer)
    \/ DeleteSelect(Writer, ConcIds)
    \/ DeleteExec(Writer)
    \/ DeleteCommit(Writer)
    \/ Finish(Writer)

SpecList == Init /\ [][NextList]_vars


(* ----------------------------------------------------------- properties *)
\* the response reports an exception of the store, not a decision of the
\* handler
StoreError(p) == resp[p].detail = "store error"

Done(p, op) == pc[p] = "done" /\ req[p].op = op

\* C1: when requests run one after the other, no two rows of the users
\* table share a username and no two rows share an email.
UniqueUsernameAndEmail ==
    \A r1 \in users, r2 \in users :
        r1 # r2 => r1.username # r2.username /\ r1.email # r2.email

\* C1 witness: two rows are stored after a successful update and a
\* successful delete
UniqueAfterWrites ==
    /\ Cardinality(users) >= 2
    /\ deleted # {}
    /\ \E p \in Procs : Done(p, "update") /\ resp[p].status = 200

\* C2: a Create whose username or email some stored row already has is
\* answered 400 "already exists" (unless the store raises) and leaves the
\* table as it was.
DuplicateCreateRejected ==
    [][\A p \in Procs :
         ( /\ pc[p] = "idle"
           /\ req'[p].op = "create"
           /\ \E r \in users :
                r.username = req'[p].username \/ r.email = req'[p].email
           /\ resp'[p].detail # "store error" )
         => ( /\ pc'[p] = "done"
              /\ resp'[p].status = 400
              /\ resp'[p].detail = "already exists"
              /\ users' = users )]_vars

\* C2 witness: a Create was refused as a duplicate on a non-empty table
DuplicateCreateSeen ==
    \E p \in Procs :
        /\ Done(p, "create")
        /\ resp[p].status = 400
        /\ \E r \in users : r.email = req[p].email /\ r.username # req[p].username


\* some row other than the target holds a value the payload supplies
TakenByOther(rows, r) ==
    \E o \in rows :
        /\ o.id # r.id
        /\ \/ (r.username # None /\ o.username = r.username)
           \/ (r.email # None /\ o.email = r.email)

\* C3: an Update of an existing id with a non-empty change set is answered
\* 400 "already taken" exactly when a row with a different id holds the
\* supplied username or the supplied email, and succeeds otherwise (unless
\* the store raises); the target's own values and fields not supplied
\* never conflict.
UpdateDuplicateIffOtherRow ==
    \A p \in Procs :
        ( /\ Done(p, "update")
          /\ RowsById(users, req[p].id) # {}
          /\ (req[p].username # None \/ req[p].email # None)
          /\ ~StoreError(p) )
        => /\ (resp[p].status = 400 /\ resp[p].detail = "already taken")
                <=> TakenByOther(users, req[p])
           /\ ~TakenByOther(users, req[p]) => resp[p].status = 200

\* C3 witness: an Update that supplies only the username succeeded beside
\* another stored row, and one that collides with another row was refused
UpdateBesideOtherRow ==
    \E p \in Procs :
        /\ Done(p, "update")
        /\ resp[p].status = 200
        /\ req[p].username # None
        /\ req[p].email = None
        /\ Cardinality(users) >= 2

\* C4: an Update of an existing id that supplies neither username nor email
\* is answered 400 "no data provided" (unless the store raises) and leaves
\* the table as it was.
EmptyUpdateRejected ==
    [][\A p \in Procs :
         ( /\ pc[p] = "idle"
           /\ req'[p].op = "update"
           /\ RowsById(users, req'[p].id) # {}
           /\ req'[p].username = None
           /\ req'[p].email = None
           /\ resp'[p].detail # "store error" )
         => ( /\ pc'[p] = "done"
              /\ resp'[p].status = 400
              /\ resp'[p].detail = "no data provided"
              /\ users' = users )]_vars

\* C4 witness: an empty Update of a stored user was refused
EmptyUpdateSeen ==
    \E p \in Procs :
        /\ Done(p, "update")
        /\ resp[p].detail = "no data provided"
        /\ RowsById(users, req[p].id) # {}

\* a Delete of an id that has no row is answered 404 and changes nothing
DeleteMissingNotFound ==
    \A p \in Procs :
        ( /\ pc[p] = "idle"
          /\ req'[p].op = "delete"
          /\ RowsById(users, req'[p].id) = {}
          /\ resp'[p].detail # "store error" )
        => ( /\ pc'[p] = "done"
             /\ resp'[p].status = 404
             /\ users' = users )

\* a Get of an id whose Delete succeeded earlier is answered 404
GetAfterDeleteNotFound ==
    \A p \in Procs :
        (Done(p, "get") /\ req[p].id \in deleted /\ ~StoreError(p))
        => resp[p].status = 404

\* C5: a Delete of an id that has no row is answered 404 and leaves the
\* table unchanged; once a Delete of an id succeeded, every later Get of
\* that id is answered 404 (unless the store raises).
DeleteThenNotFound == [][DeleteMissingNotFound]_vars /\ []GetAfterDeleteNotFound

\* C5 witness: a Get of a deleted id was answered 404 while the table still
\* holds another row
GetOfDeletedSeen ==
    \E p \in Procs :
        /\ Done(p, "get")
        /\ req[p].id \in deleted
        /\ resp[p].status = 404
        /\ users # {}

\* the store delivered the statement's result (no exception, and the
\* INSERT's RETURNING row arrived)
StoreFine(p) == ~StoreError(p) /\ resp[p].detail # "failed to create"

\* C6: a Create of a pair no stored row conflicts with succeeds (given the
\* store delivers), and a Get of the id it returned answers that username,
\* that email and a created_at that is not null.
CreateThenGet ==
    \A p \in Procs :
        (Done(p, "create") /\ StoreFine(p))
        => /\ resp[p].status # 200 =>
                \E r \in users :
                    r.username = req[p].username \/ r.email = req[p].email
           /\ resp[p].status = 200 =>
                LET got == GetUser(users, resp[p].body.id)
                IN /\ got.status = 200
                   /\ got.body.username = req[p].username
                   /\ got.body.email = req[p].email
                   /\ got.body.created_at # None

\* C6 witness: a Create succeeded beside an already stored row
CreateSucceeded ==
    \E p \in Procs :
        /\ Done(p, "create")
        /\ resp[p].status = 200
        /\ Cardinality(users) >= 2


\* sub occurs in s, letter case ignored
ContainsFolded(s, sub) ==
    \E i \in 0..(Len(s) - Len(sub)) :
        \A j \in 1..Len(sub) : Lower(s[i + j]) = Lower(sub[j])

\* the row matches the search as the specification words it
SubstringMatch(row, search) ==
    \/ ~Truthy(search)
    \/ ContainsFolded(row.username, search)
    \/ ContainsFolded(row.email, search)

\* C7: List returns exactly the rows at positions skip .. skip+limit-1 of
\* the rows that match, by id ascending, where a row matches iff search is
\* absent or empty or its username or email contains search as a
\* substring, letter case ignored; count <= limit.
ListReturnsSubstringPage ==
    \A p \in Procs :
        (Done(p, "list") /\ ~StoreError(p))
        => LET match == {r \in users : SubstringMatch(r, req[p].search)}
               page == resp[p].body.users
               n == Cardinality(match) - req[p].skip
           IN /\ Len(page) = (IF n < 0 THEN 0 ELSE Min(n, req[p].limit))
              /\ resp[p].body.count <= req[p].limit
              /\ \A i \in 1..Len(page) :
                    \E r \in match :
                        /\ page[i] = UserDict(r)
                        /\ Cardinality({o \in match : o.id < r.id}) = req[p].skip + i - 1

\* C8: in a List response total is the number of rows the select statement's
\* filter matches, whatever skip and limit are, count is the number of users
\* returned, and has_more is true exactly when skip + count < total.
ListTotals ==
    \A p \in Procs :
        (Done(p, "list") /\ ~StoreError(p))
        => LET b == resp[p].body
           IN /\ b.total = Len(SelectPage(users, req[p].search, Cardinality(users), 0))
              /\ b.count = Len(b.users)
              /\ b.has_more <=> (req[p].skip + b.count < b.total)

\* C8 witness: a filtered List returned a page with more rows to come while
\* the filter excludes a stored row
ListPageWithMore ==
    \E p \in Procs :
        /\ Done(p, "list")
        /\ resp[p].status = 200
        /\ Truthy(req[p].search)
        /\ resp[p].body.has_more
        /\ resp[p].body.count >= 1
        /\ resp[p].body.total < Cardinality(users)

\* C9: the committed table changes only in the step that ends a request
\* successfully: a request that ends in an error has committed nothing.
CommitOnlyOnSuccess ==
    [][users' # users =>
         \E p \in Procs :
             pc[p] # "done" /\ pc'[p] = "done" /\ resp'[p].status = 200]_vars

\* C10: a Create that passed its uniqueness check commits its row even when
\* a row with its username was committed since the check: it is answered 200
\* and two rows then share the username.
RacingCreatesBothCommit ==
    [][\A p \in Procs :
         ( /\ pc[p] = "create_commit"
           /\ pc'[p] = "done"
           /\ \E r \in users : r.username = req[p].username )
         => ( /\ resp'[p].status = 200
              /\ Cardinality({r \in users' : r.username = req[p].username}) >= 2 )]_vars

\* C10 witness: both sessions' Creates of one username were answered 200
\* and two stored rows share that username
TwoRowsShareUsername ==
    \E p \in Procs, q \in Procs :
        /\ p # q
        /\ Done(p, "create") /\ Done(q, "create")
        /\ resp[p].status = 200 /\ resp[q].status = 200
        /\ req[p].username = req[q].username
        /\ \E r1 \in users, r2 \in users :
              /\ r1.id = resp[p].body.id /\ r2.id = resp[q].body.id
              /\ r1.username = r2.username


\* the UPDATE / DELETE statement of p finds its target row gone
TargetGoneAtExec(p) ==
    /\ pc[p] \in {"update_exec", "delete_exec"}
    /\ pc'[p] \in {"update_commit", "delete_commit"}
    /\ RowsById(users, req[p].id) = {}

\* C11: when the UPDATE / DELETE statement of a request that passed its
\* existence check finds the row deleted by another session, the statement
\* writes nothing and the request ends with 500 "failed to update" /
\* "failed to delete", never with success, and no row changes.
VanishedTargetIsPersistenceError ==
    [][\A p \in Procs :
         /\ TargetGoneAtExec(p) =>
              (users' = users /\ txn'[p] = NoTxn /\ result'[p] = <<>>)
         /\ ( /\ pc[p] \in {"update_commit", "delete_commit"}
              /\ pc'[p] = "done"
              /\ result[p] = <<>> )
            => ( /\ resp'[p].status = 500
                 /\ resp'[p].detail =
                      (IF req[p].op = "update" THEN "failed to update"
                       ELSE "failed to delete")
                 /\ users' = users )]_vars

\* C11 witness: an Update whose target another session deleted after the
\* existence check was answered 500 "failed to update"
UpdateOfVanishedRowSeen ==
    \E p \in Procs :
        /\ Done(p, "update")
        /\ resp[p].status = 500
        /\ resp[p].detail = "failed to update"
        /\ req[p].id \in deleted
        /\ RowsById(users, req[p].id) = {}

\* the one element of a set of rows
TheRow(rows) == CHOOSE r \in rows : TRUE

\* C12: a successful Update writes the supplied fields of the target row and
\* nothing else: id and created_at stay, a field not supplied keeps its
\* value, and every other row is unchanged.
UpdateChangesOnlySupplied ==
    [][\A p \in Procs :
         ( /\ pc[p] = "update_commit"
           /\ pc'[p] = "done"
           /\ resp'[p].status = 200 )
         => /\ Cardinality(RowsById(users, req[p].id)) = 1
            /\ Cardinality(RowsById(users', req[p].id)) = 1
            /\ LET old == TheRow(RowsById(users, req[p].id))
                   new == TheRow(RowsById(users', req[p].id))
               IN /\ new.id = old.id
                  /\ new.created_at = old.created_at
                  /\ new.username =
                       (IF req[p].username = None THEN old.username
                        ELSE req[p].username)
                  /\ new.email =
                       (IF req[p].email = None THEN old.email ELSE req[p].email)
                  /\ resp'[p].body = ReturningDict(new)
            /\ {r \in users' : r.id # req[p].id} = {r \in users : r.id # req[p].id}]_vars

\* C12 witness: an Update that supplied only the email succeeded and the
\* target kept its username while another row is stored
PartialUpdateSeen ==
    \E p \in Procs :
        /\ Done(p, "update")
        /\ resp[p].status = 200
        /\ req[p].username = None
        /\ req[p].email # None
        /\ \E r \in users : r.id = req[p].id /\ r.email = req[p].email
        /\ Cardinality(users) >= 2

\* at most one Delete of an id reports success
OneDeleteSucceeds ==
    \A p \in Procs, q \in Procs :
        ( /\ p # q
          /\ Done(p, "delete") /\ Done(q, "delete")
          /\ req[p].id = req[q].id
          /\ resp[p].status = 200 )
        => \/ resp[q].status = 404
           \/ (resp[q].status = 500 /\ resp[q].detail = "failed to delete")

\* a Delete that reports success is the one whose commit removed the row
SuccessRemovesRow ==
    \A p \in Procs :
        ( /\ pc[p] = "delete_commit"
          /\ pc'[p] = "done"
          /\ resp'[p].status = 200 )
        => ( /\ RowsById(users, req[p].id) # {}
             /\ RowsById(users', req[p].id) = {} )

\* C18: of the Deletes of one id that two sessions run concurrently, at most
\* one reports success, the other ends with 404 or with 500 "failed to
\* delete", and the success is the commit that removed the row.
ConcurrentDeletesOnce == []OneDeleteSucceeds /\ [][SuccessRemovesRow]_vars

\* C18 witness: both sessions deleted the same id; one was answered 200 and
\* the other, which had passed its existence check, 500
RacingDeletesSeen ==
    \E p \in Procs, q \in Procs :
        /\ p # q
        /\ Done(p, "delete") /\ Done(q, "delete")
        /\ req[p].id = req[q].id
        /\ resp[p].status = 200
        /\ resp[q].status = 500

\* C20: an Update that succeeds leaves its target the only row holding the
\* username and the email it supplied, whatever another session's Update or
\* Create committed since its uniqueness check.
UpdateTakesValueAlone ==
    [][\A p \in Procs :
         ( /\ pc[p] = "update_commit"
           /\ pc'[p] = "done"
           /\ resp'[p].status = 200 )
         => ~TakenByOther(users', req[p])]_vars


\* C19: a List response with a non-empty page has skip + count <= total,
\* also when another session commits between the SELECT and the COUNT.
ListPageWithinTotal ==
    \A p \in Procs :
        (Done(p, "list") /\ resp[p].status = 200 /\ resp[p].body.count > 0)
        => resp[p].body.skip + resp[p].body.count <= resp[p].body.total


\* C16: GET /health always ends with status 200: the healthy payload when the
\* probe answered, the unhealthy payload with the error text when it raised;
\* the table is left as it was.
HealthNeverFails ==
    [][\A p \in Procs :
         (pc[p] = "idle" /\ req'[p].op = "health")
         => /\ pc'[p] = "done"
            /\ resp'[p].status = 200
            /\ IF result'[p] # <<>>
               THEN /\ resp'[p].body.status = "healthy"
                    /\ resp'[p].body.database = "connected"
                    /\ resp'[p].body.postgres_version = result'[p][1]
               ELSE /\ resp'[p].body.status = "unhealthy"
                    /\ resp'[p].body.database = "disconnected"
                    /\ resp'[p].body.error # ""
            /\ users' = users /\ seq' = seq /\ txn' = txn]_vars

\* C16 witness: a health check on a table with rows whose probe raised
UnhealthySeen ==
    \E p \in Procs :
        /\ Done(p, "health")
        /\ resp[p].body.status = "unhealthy"
        /\ users # {}

\* a request in flight holds a Session of its own; an idle session holds none
SessionPerRequest ==
    \A p \in Procs :
        /\ (pc[p] = "idle") <=> (db[p] = NoSession)
        /\ \A q \in Procs \ {p} : db[p] # NoSession => db[p] # db[q]

\* the Session is closed by the step that sends the response and by no other
ClosedOnceAtExit ==
    \A p \in Procs :
        /\ (db[p] # NoSession /\ db'[p] # db[p]) => (pc[p] = "done" /\ db'[p] = NoSession)
        /\ (pc[p] = "done" /\ pc'[p] # "done") => db'[p] = NoSession

Answered(p) == resp'[p].detail # "store error"

\* C13 as stated: an Update checks existence first, then the email format,
\* then the empty change set: a nonexistent id gives 404 whatever the body,
\* an existing id with a malformed email gives 422, with no fields 400.
UpdateExistenceFirst ==
    [][\A p \in Procs :
         (pc[p] = "idle" /\ req'[p].op = "update" /\ Answered(p))
         => IF RowsById(users, req'[p].id) = {}
            THEN resp'[p].status = 404
            ELSE IF UserUpdate(req'[p].username, req'[p].email) # {}
                 THEN resp'[p].status = 422
                 ELSE (req'[p].username = None /\ req'[p].email = None)
                      => (resp'[p].status = 400 /\ resp'[p].detail = "no data provided")]_vars

\* C13: an Update checks the email format first, then existence, then the
\* empty change set, then uniqueness, and reports the first that fails: a
\* malformed email gives 422 also on a nonexistent id, a nonexistent id with
\* a well-formed body gives 404 also when no field is supplied, and an
\* existing id with no fields gives 400 "no data provided".
UpdateValidatorFirst ==
    [][\A p \in Procs :
         /\ (pc[p] = "idle" /\ req'[p].op = "update" /\ Answered(p))
            => IF UserUpdate(req'[p].username, req'[p].email) # {}
               THEN /\ pc'[p] = "done"
                    /\ resp'[p].status = 422
                    /\ resp'[p].body = {"email"}
               ELSE IF RowsById(users, req'[p].id) = {}
                    THEN pc'[p] = "done" /\ resp'[p].status = 404
                    ELSE IF req'[p].username = None /\ req'[p].email = None
                         THEN /\ pc'[p] = "done"
                              /\ resp'[p].status = 400
                              /\ resp'[p].detail = "no data provided"
                         ELSE pc'[p] = "update_check"
         /\ (pc[p] = "update_check" /\ pc'[p] = "done" /\ Answered(p))
            => (resp'[p].status = 400 /\ resp'[p].detail = "already taken")]_vars

\* C13 witness: an Update of an id that has no row, with a malformed email,
\* was answered 422
MalformedUpdateOfMissingSeen ==
    \E p \in Procs :
        /\ Done(p, "update")
        /\ resp[p].status = 422
        /\ RowsById(users, req[p].id) = {}
        /\ users # {}

\* C14: a Create whose username is missing or empty, or whose email is
\* missing or malformed, is answered 422 before any statement runs and adds
\* no row; no row has an empty username.
CreateInvalidRejected ==
    /\ [][\A p \in Procs :
            ( /\ pc[p] = "idle"
              /\ req'[p].op = "create"
              /\ Answered(p)
              /\ \/ req'[p].username \in {None, <<>>}
                 \/ ~EmailStr(req'[p].email) )
            => ( /\ pc'[p] = "done"
                 /\ resp'[p].status = 422
                 /\ users' = users /\ txn' = txn /\ seq' = seq )]_vars
    /\ [](\A r \in users : r.username # <<>>)

\* the error kind a response's message stands for
ErrorKind(detail) ==
    CASE detail = "validation error" -> "ValidationError"
      [] detail = "not found" -> "NotFoundError"
      [] detail \in {"already exists", "already taken"} -> "DuplicateError"
      [] detail = "no data provided" -> "NoUpdateFieldsError"
      [] detail \in {"failed to create", "failed to update", "failed to delete"}
           -> "PersistenceError"
      [] OTHER -> "none"

\* C15: a request ends with one response, and two responses that report
\* different error kinds carry different statuses.
ErrorKindsHaveDistinctStatuses ==
    \A p \in Procs, q \in Procs :
        ( /\ pc[p] = "done" /\ pc[q] = "done"
          /\ ErrorKind(resp[p].detail) # "none"
          /\ ErrorKind(resp[q].detail) # "none"
          /\ ErrorKind(resp[p].detail) # ErrorKind(resp[q].detail) )
        => resp[p].status # resp[q].status

====
